---- MODULE Spec2Model ----
(***************************************************************************)
(* A model of Python-SQLiteDB.                                             *)
(*                                                                         *)
(*   - SQLiteDB (src/sqlitedb/sqlitedb.py): caller threads, the instance   *)
(*     lock, the two queues and the worker thread, one step per access to  *)
(*     shared state.  Specifications Spec and FairSpec.                    *)
(*   - IndexedDB (src/sqlitedb/indexedb.py): the namespace table, the      *)
(*     handles' cached flags and the key-value operations, each built from *)
(*     the SQL statements it issues, each operation atomic.                *)
(*     Specification SpecKV.  Two threads inside __setitem__, one step per *)
(*     statement or flag access: specification SpecSet.                    *)
(*   - IndexedDBManager (src/sqlitedb/indexedb.py): the handle cache,      *)
(*     specification SpecCache; the cache over the data of one namespace,  *)
(*     specification SpecNS.                                               *)
(***************************************************************************)
EXTENDS Integers, Sequences, FiniteSets, TLC

VARIABLES
    \* ---- SQLiteDB ----
    autoquit_test,  \* "None" when the instance was built with autoquit_test=None, else "callable"
    exited,         \* self.exited
    queue_in,       \* self.__queue_in  (commands)
    queue_out,      \* self.__queue_out (responses)
    db_lock,        \* self.__db_lock: the caller holding it, or "free"
    connection,     \* the worker's sqlite3 connection: "none", "open", "closed"
    wpc,            \* the worker's position in thread_db_connection
    command,        \* the worker's local `command`
    db_respond,     \* the worker's local `db_respond`
    pc,             \* each caller's position in execute/commit/quit
    cmd,            \* each caller's current command
    respond,        \* each caller's local `respond`
    ncalls,         \* calls each caller has started
    taken,          \* history: ids of the commands the worker took from queue_in, in order
    produced,       \* history: ids of the commands whose responses the worker put on queue_out
    quit_acks,      \* history: quit() calls that returned True
    worker_ops,     \* history: what the worker did to its connection and the Quits it processed, in order
    \* ---- IndexedDB ----
    db,             \* the namespace table as the connection sees it, and its open transaction
    table_created,  \* each handle's self.__table_created
    supports_jsonization,  \* each handle's self.__supports_jsonization: "None", "True", "False"
    last,           \* history: the operation just performed, its arguments and its outcome
    expected,       \* history: per key, whether it was never set, came with the file, was set (and to what) or was deleted
    writers,        \* history: the handles that have issued a write statement
    setters,        \* each thread inside store[key] = value: its handle, arguments, position and locals
    \* ---- IndexedDBManager ----
    db_cache,       \* self.__db_cache: namespace name -> the cached handle's flags
    evictions,      \* history: entries deleted from the cache so far
    returned,       \* history: the last manager[item]: its item, whether it made a new handle, the name it evicted
    dropped,        \* history: del manager[name] has dropped the namespace's table
    set_at          \* history: the eviction counts at which a set was made through the manager's handle

sqlVars == <<autoquit_test, exited, queue_in, queue_out, db_lock, connection, wpc,
             command, db_respond, pc, cmd, respond, ncalls, taken, produced, quit_acks,
             worker_ops>>

kvVars == <<db, table_created, supports_jsonization, last, expected, writers, setters>>

nsVars == <<db_cache, evictions, returned, dropped, set_at>>

vars == <<sqlVars, kvVars, nsVars>>

----------------------------------------------------------------------------
(***************************************************************************)
(* SQLiteDB                                                                *)
(***************************************************************************)

Callers == {"c1", "c2"}

\* Calls one caller may start in a run.
MaxCalls == 2

\* Statements a caller may pass to execute(): one the engine runs, one it rejects.
Statements == {"SELECT 1", "SELECT * FROM missing"}

NoCommand == [type |-> "none", sql |-> "", id |-> <<"", 0>>]
NoRespond == [type |-> "none", of |-> <<"", 0>>]

DBCommandSQL(sql, id) == [type |-> "DBCommandSQL", sql |-> sql, id |-> id]
DBCommandCommit(id)   == [type |-> "DBCommandCommit", sql |-> "", id |-> id]
DBCommandQuit(id)     == [type |-> "DBCommandQuit", sql |-> "", id |-> id]

\* connection.execute(command.command, command.data): the rows, or the engine's error.
connection_execute(sql) ==
    IF sql = "SELECT 1" THEN "rows" ELSE "Exception"

\* The instance right after __init__, but for its autoquit_test.
NewSQLiteDB ==
    /\ exited = FALSE
    /\ queue_in = <<>>
    /\ queue_out = <<>>
    /\ db_lock = "free"
    /\ connection = "none"
    /\ wpc = "connect"
    /\ command = NoCommand
    /\ db_respond = NoRespond
    /\ pc = [c \in Callers |-> "idle"]
    /\ cmd = [c \in Callers |-> NoCommand]
    /\ respond = [c \in Callers |-> NoRespond]
    /\ ncalls = [c \in Callers |-> 0]
    /\ taken = <<>>
    /\ produced = <<>>
    /\ quit_acks = 0
    /\ worker_ops = <<>>

\* SQLiteDB(file_path, autoquit_test): a predicate, or None
InitSQL ==
    /\ autoquit_test \in {"None", "callable"}
    /\ NewSQLiteDB

\* SQLiteDB(file), as IndexedDBManager.__init__ builds it
IdleSQL ==
    /\ autoquit_test = "callable"
    /\ NewSQLiteDB

callerVars == <<pc, cmd, respond, ncalls, db_lock, quit_acks>>
workerVars == <<exited, connection, wpc, command, db_respond, taken, produced, worker_ops>>

\* ---- the worker: thread_db_connection ----

\* sqlite3.connect(...)
worker_connect ==
    /\ wpc = "connect"
    /\ connection' = "open"
    /\ wpc' = "keep_running"
    /\ UNCHANGED <<kvVars, nsVars, autoquit_test, exited, queue_in, queue_out, command, db_respond,
                   taken, produced, callerVars, worker_ops>>

\* Mutant: an instance built with autoquit_test=None is tested like any other.
thread_db_keep_running_ignores_none ==
    /\ wpc = "keep_running"
    /\ \/ /\ exited
          /\ wpc' = "final_commit"
       \/ /\ ~exited
          /\ \E r \in BOOLEAN : wpc' = IF r THEN "get" ELSE "queue_empty"
    /\ UNCHANGED <<kvVars, nsVars, autoquit_test, exited, queue_in, queue_out, connection, command,
                   db_respond, taken, produced, callerVars, worker_ops>>

\* thread_db_keep_running, up to its read of the queue: the loop is left when
\* exited is set; it goes on without a test when autoquit_test is None; else
\* autoquit_test() is called and returns either value.
thread_db_keep_running ==
    /\ wpc = "keep_running"
    /\ \/ /\ exited
          /\ wpc' = "final_commit"
       \/ /\ ~exited
          /\ autoquit_test = "None"
          /\ wpc' = "get"
       \/ /\ ~exited
          /\ autoquit_test = "callable"
          /\ \E r \in BOOLEAN : wpc' = IF r THEN "get" ELSE "queue_empty"
    /\ UNCHANGED <<kvVars, nsVars, autoquit_test, exited, queue_in, queue_out, connection, command,
                   db_respond, taken, produced, callerVars, worker_ops>>

\* ... or not self.__queue_in.empty()
keep_running_queue_empty ==
    /\ wpc = "queue_empty"
    /\ wpc' = IF queue_in = <<>> THEN "final_commit" ELSE "get"
    /\ UNCHANGED <<kvVars, nsVars, autoquit_test, exited, queue_in, queue_out, connection, command,
                   db_respond, taken, produced, callerVars, worker_ops>>

\* command = self.__queue_in.get(timeout=2): a command, or queue.Empty and
\* back to the loop test.
worker_queue_get ==
    /\ wpc = "get"
    /\ \/ /\ queue_in # <<>>
          /\ command' = Head(queue_in)
          /\ queue_in' = Tail(queue_in)
          /\ taken' = Append(taken, Head(queue_in).id)
          /\ wpc' = "process"
       \/ /\ queue_in = <<>>
          /\ wpc' = "keep_running"
          /\ UNCHANGED <<command, queue_in, taken>>
    /\ UNCHANGED <<kvVars, nsVars, autoquit_test, exited, queue_out, connection, db_respond,
                   produced, callerVars, worker_ops>>

\* The response the worker computes for a command, and the exited flag after it.
worker_respond(c) ==
    IF c.type = "DBCommandSQL" THEN [type |-> connection_execute(c.sql), of |-> c.id]
    ELSE [type |-> "True", of |-> c.id]

\* What processing a command does: connection.execute, connection.commit,
\* or the Quit's self.exited = True.
worker_op(c) ==
    IF c.type = "DBCommandSQL" THEN "execute"
    ELSE IF c.type = "DBCommandCommit" THEN "commit"
    ELSE "quit"

worker_process ==
    /\ wpc = "process"
    /\ db_respond' = worker_respond(command)
    /\ exited' = IF command.type = "DBCommandQuit" THEN TRUE ELSE exited
    /\ wpc' = "put"
    /\ worker_ops' = Append(worker_ops, worker_op(command))
    /\ UNCHANGED <<kvVars, nsVars, autoquit_test, queue_in, queue_out, connection, command,
                   taken, produced, callerVars>>

\* self.__queue_out.put(db_respond)
worker_queue_put ==
    /\ wpc = "put"
    /\ queue_out' = Append(queue_out, db_respond)
    /\ produced' = Append(produced, db_respond.of)
    /\ wpc' = "keep_running"
    /\ UNCHANGED <<kvVars, nsVars, autoquit_test, exited, queue_in, connection, command, db_respond,
                   taken, callerVars, worker_ops>>

\* Mutant: the worker closes the connection without the commit after the loop.
worker_final_commit_skipped ==
    /\ wpc = "final_commit"
    /\ wpc' = "close"
    /\ UNCHANGED <<kvVars, nsVars, autoquit_test, exited, queue_in, queue_out, connection, command,
                   db_respond, taken, produced, callerVars, worker_ops>>

\* connection.commit() after the loop
worker_final_commit ==
    /\ wpc = "final_commit"
    /\ wpc' = "close"
    /\ worker_ops' = Append(worker_ops, "final_commit")
    /\ UNCHANGED <<kvVars, nsVars, autoquit_test, exited, queue_in, queue_out, connection, command,
                   db_respond, taken, produced, callerVars>>

\* connection.close()
worker_close ==
    /\ wpc = "close"
    /\ connection' = "closed"
    /\ wpc' = "set_exited"
    /\ worker_ops' = Append(worker_ops, "close")
    /\ UNCHANGED <<kvVars, nsVars, autoquit_test, exited, queue_in, queue_out, command, db_respond,
                   taken, produced, callerVars>>

\* self.exited = True; the thread ends
worker_set_exited ==
    /\ wpc = "set_exited"
    /\ exited' = TRUE
    /\ wpc' = "stopped"
    /\ UNCHANGED <<kvVars, nsVars, autoquit_test, queue_in, queue_out, connection, command, db_respond,
                   taken, produced, callerVars, worker_ops>>

thread_db_connection ==
    \/ worker_connect
    \/ thread_db_keep_running
    \/ keep_running_queue_empty
    \/ worker_queue_get
    \/ worker_process
    \/ worker_queue_put
    \/ worker_final_commit
    \/ worker_close
    \/ worker_set_exited

\* ---- the callers: execute, commit, quit ----

CanCall(c) == pc[c] \in {"idle", "returned", "raised"} /\ ncalls[c] < MaxCalls

StartCall(c, mk) ==
    /\ CanCall(c)
    /\ ncalls' = [ncalls EXCEPT ![c] = @ + 1]
    /\ cmd' = [cmd EXCEPT ![c] = mk]
    /\ respond' = [respond EXCEPT ![c] = NoRespond]
    /\ pc' = [pc EXCEPT ![c] = "acquire"]
    /\ UNCHANGED <<kvVars, nsVars, autoquit_test, queue_in, queue_out, db_lock, quit_acks, workerVars>>

execute(c) == \E sql \in Statements : StartCall(c, DBCommandSQL(sql, <<c, ncalls[c] + 1>>))

commit(c) == StartCall(c, DBCommandCommit(<<c, ncalls[c] + 1>>))

quit(c) == StartCall(c, DBCommandQuit(<<c, ncalls[c] + 1>>))

\* Mutant: the lock is taken without waiting for it to be free.
lock_acquire_unguarded(c) ==
    /\ pc[c] = "acquire"
    /\ db_lock' = c
    /\ pc' = [pc EXCEPT ![c] = "put"]
    /\ UNCHANGED <<kvVars, nsVars, autoquit_test, queue_in, queue_out, cmd, respond, ncalls, quit_acks,
                   workerVars>>

\* self.__db_lock.acquire()
lock_acquire(c) ==
    /\ pc[c] = "acquire"
    /\ db_lock = "free"
    /\ db_lock' = c
    /\ pc' = [pc EXCEPT ![c] = "put"]
    /\ UNCHANGED <<kvVars, nsVars, autoquit_test, queue_in, queue_out, cmd, respond, ncalls, quit_acks,
                   workerVars>>

\* Mutant: the lock is released right after the put, before the response is read.
queue_in_put_release_early(c) ==
    /\ pc[c] = "put"
    /\ queue_in' = Append(queue_in, cmd[c])
    /\ db_lock' = "free"
    /\ pc' = [pc EXCEPT ![c] = "get"]
    /\ UNCHANGED <<kvVars, nsVars, autoquit_test, queue_out, cmd, respond, ncalls, quit_acks, workerVars>>

\* self.__queue_in.put(...)
queue_in_put(c) ==
    /\ pc[c] = "put"
    /\ queue_in' = Append(queue_in, cmd[c])
    /\ pc' = [pc EXCEPT ![c] = "get"]
    /\ UNCHANGED <<kvVars, nsVars, autoquit_test, queue_out, db_lock, cmd, respond, ncalls, quit_acks,
                   workerVars>>

\* Mutant: the caller gives up on an empty output queue and goes on without a response.
queue_out_get_gives_up(c) ==
    /\ pc[c] = "get"
    /\ IF queue_out # <<>>
       THEN /\ respond' = [respond EXCEPT ![c] = Head(queue_out)]
            /\ queue_out' = Tail(queue_out)
       ELSE UNCHANGED <<respond, queue_out>>
    /\ pc' = [pc EXCEPT ![c] = "release"]
    /\ UNCHANGED <<kvVars, nsVars, autoquit_test, queue_in, db_lock, cmd, ncalls, quit_acks, workerVars>>

\* respond = self.__queue_out.get()
queue_out_get(c) ==
    /\ pc[c] = "get"
    /\ queue_out # <<>>
    /\ respond' = [respond EXCEPT ![c] = Head(queue_out)]
    /\ queue_out' = Tail(queue_out)
    /\ pc' = [pc EXCEPT ![c] = "release"]
    /\ UNCHANGED <<kvVars, nsVars, autoquit_test, queue_in, db_lock, cmd, ncalls, quit_acks, workerVars>>

\* Mutant: an Exception response is raised before the lock is released.
lock_release_raise_first(c) ==
    /\ pc[c] = "release"
    /\ db_lock' = IF respond[c].type = "Exception" THEN db_lock ELSE "free"
    /\ pc' = [pc EXCEPT ![c] = IF respond[c].type = "Exception" THEN "raised" ELSE "returned"]
    /\ quit_acks' = IF cmd[c].type = "DBCommandQuit" /\ respond[c].type = "True"
                    THEN quit_acks + 1 ELSE quit_acks
    /\ UNCHANGED <<kvVars, nsVars, autoquit_test, queue_in, queue_out, cmd, respond, ncalls, workerVars>>

\* self.__db_lock.release(), then raise respond or return respond
lock_release(c) ==
    /\ pc[c] = "release"
    /\ db_lock' = "free"
    /\ pc' = [pc EXCEPT ![c] = IF respond[c].type = "Exception" THEN "raised" ELSE "returned"]
    /\ quit_acks' = IF cmd[c].type = "DBCommandQuit" /\ respond[c].type = "True"
                    THEN quit_acks + 1 ELSE quit_acks
    /\ UNCHANGED <<kvVars, nsVars, autoquit_test, queue_in, queue_out, cmd, respond, ncalls, workerVars>>

\* The steps of a call once it has started.
CallSteps(c) ==
    \/ lock_acquire(c)
    \/ queue_in_put(c)
    \/ queue_out_get(c)
    \/ lock_release(c)

NextSQL ==
    \/ thread_db_connection
    \/ \E c \in Callers : execute(c)
    \/ \E c \in Callers : commit(c)
    \/ \E c \in Callers : quit(c)
    \/ \E c \in Callers : CallSteps(c)

----------------------------------------------------------------------------
(***************************************************************************)
(* Python values and their serialization (json, pickle + base64)           *)
(***************************************************************************)

\* A Python value: its type, its text (str, bool) or key type (dict), and
\* its elements (list, tuple, set; a dict holds one key and its value).
PyStr(s)            == [kind |-> "str", s |-> s, items |-> <<>>]
PyList(items)       == [kind |-> "list", s |-> "", items |-> items]
PyTuple(items)      == [kind |-> "tuple", s |-> "", items |-> items]
PySet(items)        == [kind |-> "set", s |-> "", items |-> items]
PyDict(keytype, kv) == [kind |-> "dict", s |-> keytype, items |-> kv]
PyBool(b)           == [kind |-> "bool", s |-> IF b THEN "True" ELSE "False", items |-> <<>>]
PyNone              == [kind |-> "None", s |-> "", items |-> <<>>]

\* The values passed to set: a string, a list, a dict with an int key, and
\* a set.
SetValues ==
    { PyStr("a"), PyList(<<1, 2>>), PyDict("int", <<1, 2>>), PySet(<<1, 2>>) }

\* The values json.loads can return here.
JsonValues == { PyList(<<1, 2>>), PyDict("str", <<1, 2>>), PyStr("a"), PyNone }

PyValues == SetValues \cup JsonValues \cup {PyBool(TRUE), PyBool(FALSE)}

RECURSIVE JoinInts(_)
JoinInts(items) ==
    IF items = <<>> THEN ""
    ELSE IF Len(items) = 1 THEN ToString(items[1])
    ELSE ToString(Head(items)) \o ", " \o JoinInts(Tail(items))

\* json.dumps(value): a list and a tuple both become an array, a dict key
\* of any basic type becomes a string, a set raises TypeError.
json_dumps(v) ==
    CASE v.kind \in {"list", "tuple"} ->
            [err |-> "", text |-> "[" \o JoinInts(v.items) \o "]"]
      [] v.kind = "dict" ->
            [err |-> "", text |-> "{\"" \o ToString(v.items[1]) \o "\": "
                                     \o ToString(v.items[2]) \o "}"]
      [] v.kind = "str"  -> [err |-> "", text |-> "\"" \o v.s \o "\""]
      [] v.kind = "bool" -> [err |-> "", text |-> IF v.s = "True" THEN "true" ELSE "false"]
      [] v.kind = "None" -> [err |-> "", text |-> "null"]
      [] OTHER -> [err |-> "TypeError", text |-> ""]

\* json.loads(text): the JSON value the text denotes, or JSONDecodeError.
json_loads(text) ==
    IF \E v \in JsonValues : json_dumps(v).text = text
    THEN [err |-> "", val |-> CHOOSE v \in JsonValues : json_dumps(v).text = text]
    ELSE [err |-> "JSONDecodeError", val |-> PyNone]

\* b64encode(pickle.dumps(value)).decode('ascii'): a text that determines
\* the value, its type included.
pickle_b64encode(v) ==
    "pickle:" \o v.kind \o ":" \o v.s \o ":" \o JoinInts(v.items)

\* pickle.loads(b64decode(text)): the pickled value, or an error for a text
\* that is no pickle.
pickle_b64decode(text) ==
    IF \E v \in PyValues : pickle_b64encode(v) = text
    THEN [err |-> "", val |-> CHOOSE v \in PyValues : pickle_b64encode(v) = text]
    ELSE [err |-> "UnpicklingError", val |-> PyNone]

----------------------------------------------------------------------------
(***************************************************************************)
(* The namespace table and the statements IndexedDB issues.  Each          *)
(* statement is one SQLiteDB.execute (or commit) round trip.               *)
(***************************************************************************)

Keys == {"k1", "k2"}

Handles == {"h1", "h2"}

Row(value, jsonized) == [value |-> value, jsonized |-> jsonized]

NoRows == <<>>

\* A table that does not exist.
NoTable ==
    [exists |-> FALSE, jsonized |-> FALSE, rows |-> NoRows,
     in_transaction |-> FALSE, uncommitted |-> {}]

\* The marker of a column a statement does not name.
NotGiven == -1

\* CREATE TABLE IF NOT EXISTS {table} (key TEXT NOT NULL UNIQUE, value TEXT)
sql_create_table(d) ==
    IF d.exists THEN d ELSE [d EXCEPT !.exists = TRUE, !.jsonized = FALSE, !.rows = NoRows]

\* PRAGMA table_info({table}): the column names (none for a missing table)
sql_table_info(d) ==
    IF ~d.exists THEN {}
    ELSE IF d.jsonized THEN {"key", "value", "jsonized"} ELSE {"key", "value"}

\* SELECT value[, jsonized] FROM {table} WHERE key=?
sql_select(d, key, with_jsonized) ==
    IF ~d.exists \/ (with_jsonized /\ ~d.jsonized)
    THEN [err |-> "OperationalError", rows |-> <<>>]
    ELSE IF key \in DOMAIN d.rows
    THEN [err |-> "",
          rows |-> << Row(d.rows[key].value,
                          IF with_jsonized THEN d.rows[key].jsonized ELSE NotGiven) >>]
    ELSE [err |-> "", rows |-> <<>>]

\* ALTER TABLE {table} ADD COLUMN jsonized INTEGER NOT NULL DEFAULT 0
sql_alter_add_jsonized(d) ==
    IF ~d.exists \/ d.jsonized
    THEN [err |-> "OperationalError", db |-> d]
    ELSE [err |-> "", db |-> [d EXCEPT !.jsonized = TRUE]]

\* UPDATE {table} SET value=?[, jsonized=?] WHERE key=?
sql_update(d, key, value, jsonized) ==
    IF ~d.exists \/ (jsonized # NotGiven /\ ~d.jsonized)
    THEN [err |-> "OperationalError", db |-> d]
    ELSE IF key \in DOMAIN d.rows
    THEN [err |-> "",
          db |-> [d EXCEPT !.rows[key] = Row(value, IF jsonized = NotGiven
                                                    THEN @.jsonized ELSE jsonized),
                           !.in_transaction = TRUE,
                           !.uncommitted = @ \cup {key}]]
    ELSE [err |-> "", db |-> [d EXCEPT !.in_transaction = TRUE]]

\* INSERT INTO {table} (key, value[, jsonized]) VALUES (?,?[,?])
sql_insert(d, key, value, jsonized) ==
    IF ~d.exists \/ (jsonized # NotGiven /\ ~d.jsonized)
    THEN [err |-> "OperationalError", db |-> d]
    ELSE IF key \in DOMAIN d.rows
    THEN [err |-> "IntegrityError", db |-> [d EXCEPT !.in_transaction = TRUE]]
    ELSE [err |-> "",
          db |-> [d EXCEPT !.rows = [k \in DOMAIN d.rows \cup {key} |->
                                        IF k = key
                                        THEN Row(value, IF jsonized = NotGiven THEN 0 ELSE jsonized)
                                        ELSE d.rows[k]],
                           !.in_transaction = TRUE,
                           !.uncommitted = @ \cup {key}]]

\* Mutant: the DELETE has no WHERE clause.
sql_delete_all(d, key) ==
    IF ~d.exists
    THEN [err |-> "OperationalError", db |-> d]
    ELSE [err |-> "",
          db |-> [d EXCEPT !.rows = NoRows,
                           !.in_transaction = TRUE,
                           !.uncommitted = @ \cup DOMAIN d.rows]]

\* DELETE FROM {table} WHERE key=?
sql_delete(d, key) ==
    IF ~d.exists
    THEN [err |-> "OperationalError", db |-> d]
    ELSE [err |-> "",
          db |-> [d EXCEPT !.rows = [k \in DOMAIN d.rows \ {key} |-> d.rows[k]],
                           !.in_transaction = TRUE,
                           !.uncommitted = IF key \in DOMAIN d.rows THEN @ \cup {key} ELSE @]]

\* DROP TABLE {table}
sql_drop_table(d) ==
    IF ~d.exists
    THEN [err |-> "OperationalError", db |-> d]
    ELSE [err |-> "",
          db |-> [d EXCEPT !.exists = FALSE, !.jsonized = FALSE, !.rows = NoRows,
                           !.uncommitted = {}]]

\* SELECT key FROM {table}
sql_select_keys(d) ==
    IF ~d.exists
    THEN [err |-> "OperationalError", keys |-> {}]
    ELSE [err |-> "", keys |-> DOMAIN d.rows]

\* self.__db.commit()
sql_commit(d) == [d EXCEPT !.in_transaction = FALSE, !.uncommitted = {}]

----------------------------------------------------------------------------
(***************************************************************************)
(* IndexedDB: the methods of one handle.  st is the table together with    *)
(* the handle's two cached flags; a method returns the state it leaves and *)
(* what it returns or raises.                                              *)
(***************************************************************************)

HandleState(created, supports) ==
    [table_created |-> created, supports_jsonization |-> supports]

\* IndexedDB.__init__: no table created yet, no probe cached
NewHandle == HandleState(FALSE, "None")

State(d, hs) == [db |-> d, hs |-> hs]

Outcome(d, hs, err, val) == [db |-> d, hs |-> hs, err |-> err, val |-> val]

\* IndexedDB.__create_table
create_table(st) ==
    IF st.hs.table_created THEN st
    ELSE State(sql_create_table(st.db), [st.hs EXCEPT !.table_created = TRUE])

\* Mutant: the probe never finds the jsonized column.
test_supports_jsonization_never_finds(st) ==
    IF st.hs.supports_jsonization # "None"
    THEN Outcome(st.db, st.hs, "", st.hs.supports_jsonization = "True")
    ELSE LET s1 == create_table(st)
         IN  Outcome(s1.db, [s1.hs EXCEPT !.supports_jsonization = "False"], "", FALSE)

\* IndexedDB.__test_supports_jsonization; val is the bool returned
test_supports_jsonization(st) ==
    IF st.hs.supports_jsonization # "None"
    THEN Outcome(st.db, st.hs, "", st.hs.supports_jsonization = "True")
    ELSE LET s1 == create_table(st)
             found == "jsonized" \in sql_table_info(s1.db)
         IN  Outcome(s1.db,
                     [s1.hs EXCEPT !.supports_jsonization = IF found THEN "True" ELSE "False"],
                     "", found)

\* IndexedDB.__support_jsonization
support_jsonization(st) ==
    IF st.hs.supports_jsonization = "True" THEN Outcome(st.db, st.hs, "", PyNone)
    ELSE LET t == test_supports_jsonization(st)
             a == sql_alter_add_jsonized(t.db)
         IN  IF t.val THEN Outcome(t.db, t.hs, "", PyNone)
             ELSE IF a.err # "" THEN Outcome(t.db, t.hs, a.err, PyNone)
             ELSE Outcome(a.db, [t.hs EXCEPT !.supports_jsonization = "True"], "", PyNone)

\* IndexedDB.key_exists
key_exists(st, item) ==
    LET s1 == create_table(st)
        r  == sql_select(s1.db, item, FALSE)
    IN  IF r.err # "" THEN Outcome(s1.db, s1.hs, r.err, PyNone)
        ELSE Outcome(s1.db, s1.hs, "", PyBool(r.rows # <<>>))

\* The value __getitem__ returns for a selected row: decoded by the row's
\* jsonized column when the handle's flag is set, else the text as it is.
decode_row(hs, row) ==
    IF hs.supports_jsonization = "True" /\ row.jsonized = 1 THEN json_loads(row.value)
    ELSE IF hs.supports_jsonization = "True" /\ row.jsonized = 2 THEN pickle_b64decode(row.value)
    ELSE [err |-> "", val |-> PyStr(row.value)]

\* IndexedDB.__getitem__
getitem(st, item) ==
    LET s1 == create_table(st)
        t  == test_supports_jsonization(s1)
        r  == sql_select(t.db, item, t.val)
        v  == decode_row(t.hs, r.rows[1])
    IN  IF r.err # "" THEN Outcome(t.db, t.hs, r.err, PyNone)
        ELSE IF r.rows = <<>> THEN Outcome(t.db, t.hs, "KeyError", PyNone)
        ELSE Outcome(t.db, t.hs, v.err, v.val)

\* A Python set of keys: its elements in some fixed order.
PyKeySet(S) ==
    [kind |-> "set", s |-> "",
     items |-> CHOOSE q \in [1..Cardinality(S) -> S] :
                   \A i, j \in 1..Cardinality(S) : i # j => q[i] # q[j]]

\* IndexedDB.keys
keys(st) ==
    LET s1 == create_table(st)
        r  == sql_select_keys(s1.db)
    IN  Outcome(s1.db, s1.hs, r.err, PyKeySet(r.keys))

\* IndexedDB.drop_db
drop_db(st) ==
    LET s1 == create_table(st)
        r  == sql_drop_table(s1.db)
    IN  Outcome(r.db, s1.hs, r.err, PyNone)

\* Mutant: get catches another exception than the KeyError __getitem__ raises.
get_catches_index_error(st, item, default) ==
    LET g == getitem(st, item)
    IN  IF g.err = "IndexError" THEN Outcome(g.db, g.hs, "", default) ELSE g

\* IndexedDB.get
get(st, item, default) ==
    LET g == getitem(st, item)
    IN  IF g.err = "KeyError" THEN Outcome(g.db, g.hs, "", default) ELSE g

\* The text and the jsonized status __setitem__ stores for a value.
serialize(value) ==
    IF value.kind = "str" THEN [value |-> value.s, jsonized_status |-> 0]
    ELSE IF json_dumps(value).err = ""
    THEN [value |-> json_dumps(value).text, jsonized_status |-> 1]
    ELSE [value |-> pickle_b64encode(value), jsonized_status |-> 2]

\* The UPDATE or INSERT of __setitem__, after its key_exists.
setitem_write(st, key, enc, exists) ==
    IF exists
    THEN LET t == test_supports_jsonization(st)
             u == sql_update(t.db, key, enc.value,
                             IF t.val THEN enc.jsonized_status ELSE NotGiven)
         IN  Outcome(u.db, t.hs, u.err, PyNone)
    ELSE LET i == sql_insert(st.db, key, enc.value,
                             IF st.hs.supports_jsonization = "True"
                             THEN enc.jsonized_status ELSE NotGiven)
         IN  Outcome(i.db, st.hs, i.err, PyNone)

\* IndexedDB.__setitem__
setitem(st, key, value) ==
    LET s1 == create_table(st)
        m  == IF value.kind # "str" THEN support_jsonization(s1)
              ELSE Outcome(s1.db, s1.hs, "", PyNone)
        e  == key_exists(State(m.db, m.hs), key)
        w  == setitem_write(State(e.db, e.hs), key, serialize(value), e.val = PyBool(TRUE))
    IN  IF m.err # "" THEN m
        ELSE IF e.err # "" THEN e
        ELSE IF w.err # "" THEN w
        ELSE Outcome(sql_commit(w.db), w.hs, "", PyNone)

\* IndexedDB.__delitem__
delitem(st, key) ==
    LET s1 == create_table(st)
        r  == sql_delete(s1.db, key)
    IN  Outcome(r.db, s1.hs, r.err, PyNone)

----------------------------------------------------------------------------
(***************************************************************************)
(* IndexedDB: operations through the handles of one namespace              *)
(***************************************************************************)

\* The row __setitem__ stores for a value once the jsonized column exists.
StoredRow(v) == Row(serialize(v).value, serialize(v).jsonized_status)

\* The tables an earlier run of the program can have left in the file: none,
\* one never migrated (strings only), or a migrated one.
PersistedRows(migrated) ==
    UNION { [K -> { StoredRow(v) : v \in { x \in SetValues : migrated \/ x.kind = "str" } }]
            : K \in SUBSET Keys }

PersistedTables ==
    {NoTable}
    \cup { [exists |-> TRUE, jsonized |-> m, rows |-> r,
            in_transaction |-> FALSE, uncommitted |-> {}]
           : m \in BOOLEAN, r \in PersistedRows(TRUE) \cup PersistedRows(FALSE) }

NoOp == [op |-> "none", h |-> "", key |-> "", arg |-> PyNone, err |-> "", val |-> PyNone]

Op(op, h, key, arg, out) ==
    [op |-> op, h |-> h, key |-> key, arg |-> arg, err |-> out.err, val |-> out.val]

Absent    == [state |-> "absent", v |-> PyNone]
Deleted   == [state |-> "deleted", v |-> PyNone]
Stored    == [state |-> "stored", v |-> PyNone]
WasSet(v) == [state |-> "set", v |-> v]

\* The threads that call store[key] = value at the same time.
Threads == {"t1", "t2"}

\* A thread that is in no call.
NoSetter ==
    [h |-> "", key |-> "", value |-> PyNone, pc |-> "idle",
     probe_for |-> "", found |-> FALSE, use_jsonized |-> FALSE, err |-> ""]

InitKV ==
    /\ setters = [t \in Threads |-> NoSetter]
    /\ db \in PersistedTables
    /\ \A k \in DOMAIN db.rows : db.jsonized \/ db.rows[k].jsonized = 0
    /\ table_created = [h \in Handles |-> FALSE]
    /\ supports_jsonization = [h \in Handles |-> "None"]
    /\ last = NoOp
    /\ expected = [k \in Keys |-> IF k \in DOMAIN db.rows THEN Stored ELSE Absent]
    /\ writers = {}

\* The state a method of handle h starts from.
StateOf(h) == State(db, HandleState(table_created[h], supports_jsonization[h]))

\* The state a method of handle h leaves.
Leaves(h, out) ==
    /\ db' = out.db
    /\ table_created' = [table_created EXCEPT ![h] = out.hs.table_created]
    /\ supports_jsonization' = [supports_jsonization EXCEPT ![h] = out.hs.supports_jsonization]

\* store[key]
GetItem(h, k) ==
    LET out == getitem(StateOf(h), k)
    IN  /\ Leaves(h, out)
        /\ last' = Op("getitem", h, k, PyNone, out)
        /\ UNCHANGED <<expected, writers, setters, sqlVars, nsVars>>

\* store.get(key, default)
Get(h, k, default) ==
    LET out == get(StateOf(h), k, default)
    IN  /\ Leaves(h, out)
        /\ last' = Op("get", h, k, default, out)
        /\ UNCHANGED <<expected, writers, setters, sqlVars, nsVars>>

\* store.key_exists(key)
KeyExists(h, k) ==
    LET out == key_exists(StateOf(h), k)
    IN  /\ Leaves(h, out)
        /\ last' = Op("key_exists", h, k, PyNone, out)
        /\ UNCHANGED <<expected, writers, setters, sqlVars, nsVars>>

\* store[key] = value
SetItem(h, k, v) ==
    LET out == setitem(StateOf(h), k, v)
    IN  /\ Leaves(h, out)
        /\ last' = Op("setitem", h, k, v, out)
        /\ expected' = IF out.err = "" THEN [expected EXCEPT ![k] = WasSet(v)] ELSE expected
        /\ writers' = writers \cup {h}
        /\ UNCHANGED <<setters, sqlVars, nsVars>>

\* del store[key]
DelItem(h, k) ==
    LET out == delitem(StateOf(h), k)
    IN  /\ Leaves(h, out)
        /\ last' = Op("delitem", h, k, PyNone, out)
        /\ expected' = IF out.err = "" /\ expected[k] # Absent
                       THEN [expected EXCEPT ![k] = Deleted] ELSE expected
        /\ writers' = writers \cup {h}
        /\ UNCHANGED <<setters, sqlVars, nsVars>>

\* The defaults passed to get: a value no set stores.
Defaults == {PyStr("d")}

NextKV ==
    \/ \E h \in Handles, k \in Keys : GetItem(h, k)
    \/ \E h \in Handles, k \in Keys, d \in Defaults : Get(h, k, d)
    \/ \E h \in Handles, k \in Keys : KeyExists(h, k)
    \/ \E h \in Handles, k \in Keys, v \in SetValues : SetItem(h, k, v)
    \/ \E h \in Handles, k \in Keys : DelItem(h, k)

\* The key-value layer at rest, for the specifications of the other layers.
IdleKV ==
    /\ setters = [t \in Threads |-> NoSetter]
    /\ db = NoTable
    /\ table_created = [h \in Handles |-> FALSE]
    /\ supports_jsonization = [h \in Handles |-> "None"]
    /\ last = NoOp
    /\ expected = [k \in Keys |-> Absent]
    /\ writers = {}

----------------------------------------------------------------------------
(***************************************************************************)
(* IndexedDB.__setitem__ called by two threads at once.  A step is one     *)
(* SQLiteDB.execute (or commit) round trip, or one read or write of a flag *)
(* of the handle; the nested __create_table calls (lines 67, 169) find the *)
(* flag set by line 113 and do nothing.                                    *)
(***************************************************************************)

\* The key both threads set.
SetKey == "k1"

\* The values the threads pass: one stored as it is, one stored as JSON.
ThreadValues == { PyStr("a"), PyList(<<1, 2>>) }

\* A thread entering store[key] = value on handle h.
Setter(h, key, value) ==
    [h |-> h, key |-> key, value |-> value, pc |-> "create_table",
     probe_for |-> "", found |-> FALSE, use_jsonized |-> FALSE, err |-> ""]

\* The flags of a handle over table d: a new handle, or one that has
\* created the table and has not probed it, has probed it as it is, or had
\* probed it before another handle added the column.
HandleFlags(d) ==
    {NewHandle}
    \cup { HandleState(TRUE, p) : p \in IF d.exists
                                        THEN {"None", "False", IF d.jsonized THEN "True" ELSE "False"}
                                        ELSE {} }

\* Two threads enter set on the same key, through one handle or through two
\* handles of the namespace; the key is stored or not.
InitSet ==
    /\ db \in PersistedTables
    /\ DOMAIN db.rows \subseteq {SetKey}
    /\ \A k \in DOMAIN db.rows : db.jsonized \/ db.rows[k].jsonized = 0
    /\ \E f \in [Handles -> HandleFlags(db)] :
           /\ table_created = [h \in Handles |-> f[h].table_created]
           /\ supports_jsonization = [h \in Handles |-> f[h].supports_jsonization]
    /\ \E h \in Handles, v1, v2 \in ThreadValues :
           setters = [t \in Threads |->
                         IF t = "t1" THEN Setter("h1", SetKey, v1) ELSE Setter(h, SetKey, v2)]
    /\ last = NoOp
    /\ expected = [k \in Keys |-> IF k \in DOMAIN db.rows THEN Stored ELSE Absent]
    /\ writers = {}

setFrame == <<last, expected, writers, sqlVars, nsVars>>

\* if type(value) is not str: self.__support_jsonization()
AfterCreateTable(value) ==
    IF value.kind = "str" THEN "key_exists" ELSE "support_jsonization"

\* __create_table: if self.__table_created: return
set_create_table(t) ==
    LET s == setters[t]
    IN  /\ s.pc = "create_table"
        /\ setters' = [setters EXCEPT ![t].pc = IF table_created[s.h]
                                                THEN AfterCreateTable(s.value)
                                                ELSE "create_table_execute"]
        /\ UNCHANGED <<db, table_created, supports_jsonization, setFrame>>

\* __create_table: the CREATE TABLE IF NOT EXISTS
set_create_table_execute(t) ==
    LET s == setters[t]
    IN  /\ s.pc = "create_table_execute"
        /\ db' = sql_create_table(db)
        /\ setters' = [setters EXCEPT ![t].pc = "create_table_done"]
        /\ UNCHANGED <<table_created, supports_jsonization, setFrame>>

\* __create_table: self.__table_created = True
set_create_table_done(t) ==
    LET s == setters[t]
    IN  /\ s.pc = "create_table_done"
        /\ table_created' = [table_created EXCEPT ![s.h] = TRUE]
        /\ setters' = [setters EXCEPT ![t].pc = AfterCreateTable(s.value)]
        /\ UNCHANGED <<db, supports_jsonization, setFrame>>

\* __support_jsonization: if self.__supports_jsonization or
\* self.__test_supports_jsonization(): return, up to the probe
set_support_jsonization(t) ==
    LET s == setters[t]
        flag == supports_jsonization[s.h]
    IN  /\ s.pc = "support_jsonization"
        /\ setters' = [setters EXCEPT
                          ![t].pc = IF flag = "True" THEN "key_exists"
                                    ELSE IF flag = "False" THEN "alter"
                                    ELSE "table_info",
                          ![t].probe_for = IF flag = "None" THEN "alter" ELSE @]
        /\ UNCHANGED <<db, table_created, supports_jsonization, setFrame>>

\* __test_supports_jsonization: the PRAGMA table_info and the loop over its rows
set_table_info(t) ==
    LET s == setters[t]
    IN  /\ s.pc = "table_info"
        /\ setters' = [setters EXCEPT ![t].pc = "table_info_done",
                                      ![t].found = "jsonized" \in sql_table_info(db)]
        /\ UNCHANGED <<db, table_created, supports_jsonization, setFrame>>

\* __test_supports_jsonization: self.__supports_jsonization = True or False,
\* and back to the caller of the probe
set_table_info_done(t) ==
    LET s == setters[t]
    IN  /\ s.pc = "table_info_done"
        /\ supports_jsonization' = [supports_jsonization EXCEPT
                                       ![s.h] = IF s.found THEN "True" ELSE "False"]
        /\ setters' = [setters EXCEPT
                          ![t].pc = IF s.probe_for = "update" THEN "update"
                                    ELSE IF s.found THEN "key_exists"
                                    ELSE "alter",
                          ![t].use_jsonized = s.found]
        /\ UNCHANGED <<db, table_created, setFrame>>

\* __support_jsonization: the ALTER TABLE
set_alter(t) ==
    LET s == setters[t]
        a == sql_alter_add_jsonized(db)
    IN  /\ s.pc = "alter"
        /\ db' = a.db
        /\ setters' = [setters EXCEPT ![t].pc = IF a.err # "" THEN "raised" ELSE "alter_done",
                                      ![t].err = a.err]
        /\ UNCHANGED <<table_created, supports_jsonization, setFrame>>

\* __support_jsonization: self.__supports_jsonization = True
set_alter_done(t) ==
    LET s == setters[t]
    IN  /\ s.pc = "alter_done"
        /\ supports_jsonization' = [supports_jsonization EXCEPT ![s.h] = "True"]
        /\ setters' = [setters EXCEPT ![t].pc = "key_exists"]
        /\ UNCHANGED <<db, table_created, setFrame>>

\* if self.key_exists(key): the SELECT
set_key_exists(t) ==
    LET s == setters[t]
        r == sql_select(db, s.key, FALSE)
    IN  /\ s.pc = "key_exists"
        /\ setters' = [setters EXCEPT
                          ![t].pc = IF r.err # "" THEN "raised"
                                    ELSE IF r.rows # <<>> THEN "update_test"
                                    ELSE "insert_test",
                          ![t].err = r.err]
        /\ UNCHANGED <<db, table_created, supports_jsonization, setFrame>>

\* if self.__test_supports_jsonization(): up to the probe
set_update_test(t) ==
    LET s == setters[t]
        flag == supports_jsonization[s.h]
    IN  /\ s.pc = "update_test"
        /\ setters' = [setters EXCEPT
                          ![t].pc = IF flag = "None" THEN "table_info" ELSE "update",
                          ![t].probe_for = IF flag = "None" THEN "update" ELSE @,
                          ![t].use_jsonized = (flag = "True")]
        /\ UNCHANGED <<db, table_created, supports_jsonization, setFrame>>

\* the UPDATE
set_update(t) ==
    LET s == setters[t]
        enc == serialize(s.value)
        u == sql_update(db, s.key, enc.value,
                        IF s.use_jsonized THEN enc.jsonized_status ELSE NotGiven)
    IN  /\ s.pc = "update"
        /\ db' = u.db
        /\ setters' = [setters EXCEPT ![t].pc = IF u.err # "" THEN "raised" ELSE "commit",
                                      ![t].err = u.err]
        /\ UNCHANGED <<table_created, supports_jsonization, setFrame>>

\* else: if self.__supports_jsonization:
set_insert_test(t) ==
    LET s == setters[t]
    IN  /\ s.pc = "insert_test"
        /\ setters' = [setters EXCEPT ![t].pc = "insert",
                                      ![t].use_jsonized = (supports_jsonization[s.h] = "True")]
        /\ UNCHANGED <<db, table_created, supports_jsonization, setFrame>>

\* the INSERT
set_insert(t) ==
    LET s == setters[t]
        enc == serialize(s.value)
        i == sql_insert(db, s.key, enc.value,
                        IF s.use_jsonized THEN enc.jsonized_status ELSE NotGiven)
    IN  /\ s.pc = "insert"
        /\ db' = i.db
        /\ setters' = [setters EXCEPT ![t].pc = IF i.err # "" THEN "raised" ELSE "commit",
                                      ![t].err = i.err]
        /\ UNCHANGED <<table_created, supports_jsonization, setFrame>>

\* self.__db.commit(), and the return
set_commit(t) ==
    LET s == setters[t]
    IN  /\ s.pc = "commit"
        /\ db' = sql_commit(db)
        /\ setters' = [setters EXCEPT ![t].pc = "returned"]
        /\ UNCHANGED <<table_created, supports_jsonization, setFrame>>

NextSet ==
    \/ \E t \in Threads : set_create_table(t)
    \/ \E t \in Threads : set_create_table_execute(t)
    \/ \E t \in Threads : set_create_table_done(t)
    \/ \E t \in Threads : set_support_jsonization(t)
    \/ \E t \in Threads : set_table_info(t)
    \/ \E t \in Threads : set_table_info_done(t)
    \/ \E t \in Threads : set_alter(t)
    \/ \E t \in Threads : set_alter_done(t)
    \/ \E t \in Threads : set_key_exists(t)
    \/ \E t \in Threads : set_update_test(t)
    \/ \E t \in Threads : set_update(t)
    \/ \E t \in Threads : set_insert_test(t)
    \/ \E t \in Threads : set_insert(t)
    \/ \E t \in Threads : set_commit(t)

----------------------------------------------------------------------------
(***************************************************************************)
(* IndexedDBManager: the handle cache                                      *)
(***************************************************************************)

\* len(self.__db_cache) > 128
CacheLimit == 128

\* The namespace names in use: two more than the cache's limit.
Names == 1..(CacheLimit + 2)

\* Evictions in a run.
MaxEvictions == 2

Cached == DOMAIN db_cache

\* No name is 0: the item of no access, the victim of no eviction.
NoName == 0

Access(item, created, victim) == [item |-> item, created |-> created, victim |-> victim]

InitCache ==
    /\ db_cache = <<>>
    /\ evictions = 0
    /\ returned = Access(NoName, FALSE, NoName)
    /\ dropped = FALSE
    /\ set_at = {}

IdleCache == InitCache

\* The dict without one of its keys.
Without(cache, name) == [n \in DOMAIN cache \ {name} |-> cache[n]]

\* The dict with a new handle for item unless it holds one.
WithItem(cache, item) ==
    IF item \in DOMAIN cache THEN cache
    ELSE [n \in DOMAIN cache \cup {item} |-> IF n = item THEN NewHandle ELSE cache[n]]

\* len(self.__db_cache) > 128
MustEvict(cache) == Cardinality(DOMAIN cache) > CacheLimit

\* IndexedDBManager.__getitem__ with random.choice picking among `choices`:
\* with more than CacheLimit entries one entry is deleted; then the item is
\* looked up and a handle made for it when it is missing.
getitem_choosing(item, choices) ==
    \/ /\ ~MustEvict(db_cache)
       /\ db_cache' = WithItem(db_cache, item)
       /\ returned' = Access(item, item \notin Cached, NoName)
       /\ UNCHANGED <<evictions, dropped, set_at, sqlVars, kvVars>>
    \/ /\ MustEvict(db_cache)
       /\ evictions < MaxEvictions
       /\ \E victim \in choices :
              /\ db_cache' = WithItem(Without(db_cache, victim), item)
              /\ returned' = Access(item, item \notin Cached \ {victim}, victim)
       /\ evictions' = evictions + 1
       /\ UNCHANGED <<dropped, set_at, sqlVars, kvVars>>

\* IndexedDBManager.__getitem__: random.choice picks any of the cached names.
manager_getitem(item) == getitem_choosing(item, Cached)

\* The names a caller asks for, one of each sort: a cached name at an end of
\* a run of cached names, and a name that is not cached and is either 1 or
\* follows a cached name (a new name, or one evicted earlier).
Asked ==
    { n \in Names : /\ n \in Cached
                    /\ (n - 1) \notin Cached \/ (n + 1) \notin Cached }
    \cup { n \in Names : /\ n \notin Cached
                         /\ n = 1 \/ (n - 1) \in Cached }

NextCache == \E item \in Asked : manager_getitem(item)


----------------------------------------------------------------------------
(***************************************************************************)
(* IndexedDBManager over the data of one namespace: the handle in use is   *)
(* the one the last manager[name] returned.                                *)
(***************************************************************************)

\* The namespace whose table is followed.
Tracked == 1

\* SELECT tbl_name FROM sqlite_master WHERE type='table' AND tbl_name LIKE
\* 'db_%', with the 'db_' prefix cut off
manager_keys(d) == IF d.exists THEN {Tracked} ELSE {}

\* The names random.choice picks from: the followed name, and one name for
\* all the other cached names, whose handles are unused and alike.
Choices ==
    LET others == Cached \ {Tracked}
    IN  (Cached \cap {Tracked})
        \cup (IF others = {} THEN {}
              ELSE {CHOOSE n \in others : \A m \in others : m <= n})

\* manager[item]
ns_access(item) == getitem_choosing(item, Choices)

\* The caller holds the handle of the followed namespace: the last
\* manager[name] returned it.
Holding == returned.item = Tracked

\* The state a method of the held handle starts from.
HeldState == State(db, db_cache[Tracked])

\* The state a method of the held handle leaves.
NsLeaves(out) ==
    /\ db' = out.db
    /\ db_cache' = [db_cache EXCEPT ![Tracked] = out.hs]
    /\ UNCHANGED <<table_created, supports_jsonization, writers, setters, evictions,
                   returned, sqlVars>>

\* manager[name][key] = value
ns_setitem(k, v) ==
    LET out == setitem(HeldState, k, v)
    IN  /\ Holding
        /\ NsLeaves(out)
        /\ last' = Op("setitem", "held", k, v, out)
        /\ expected' = IF out.err = "" THEN [expected EXCEPT ![k] = WasSet(v)] ELSE expected
        /\ set_at' = set_at \cup {evictions}
        /\ UNCHANGED dropped

\* manager[name][key]
ns_getitem(k) ==
    LET out == getitem(HeldState, k)
    IN  /\ Holding
        /\ NsLeaves(out)
        /\ last' = Op("getitem", "held", k, PyNone, out)
        /\ UNCHANGED <<expected, set_at, dropped>>

\* manager[name].keys()
ns_keys ==
    LET out == keys(HeldState)
    IN  /\ Holding
        /\ NsLeaves(out)
        /\ last' = Op("keys", "held", "", PyNone, out)
        /\ UNCHANGED <<expected, set_at, dropped>>

\* del manager[name]: the drop_db() of the handle self[key] returned
manager_delitem ==
    LET out == drop_db(HeldState)
    IN  /\ Holding
        /\ NsLeaves(out)
        /\ last' = Op("manager_delitem", "held", "", PyNone, out)
        /\ expected' = IF out.err = "" THEN [k \in Keys |-> Absent] ELSE expected
        /\ dropped' = (dropped \/ out.err = "")
        /\ UNCHANGED set_at

\* name in manager
manager_contains ==
    /\ last' = Op("manager_contains", "", "", PyNone,
                  [err |-> "", val |-> PyBool(Tracked \in manager_keys(db))])
    /\ UNCHANGED <<db, table_created, supports_jsonization, expected, writers, setters,
                   sqlVars, nsVars>>

NextNS ==
    \/ \E item \in Asked : ns_access(item)
    \/ \E v \in ThreadValues : ns_setitem(SetKey, v)
    \/ ns_getitem(SetKey)
    \/ ns_keys
    \/ manager_delitem
    \/ manager_contains

----------------------------------------------------------------------------
(***************************************************************************)
(* Specifications                                                          *)
(***************************************************************************)

Init == InitSQL /\ IdleKV /\ IdleCache

Next == NextSQL

Spec == Init /\ [][Next]_vars

\* The worker thread and every caller thread inside a call keep being scheduled.
FairSpec ==
    /\ Spec
    /\ WF_vars(thread_db_connection)
    /\ \A c \in Callers : WF_vars(CallSteps(c))

\* The key-value operations of one namespace, over a live SQLiteDB.
InitKVOnly == InitKV /\ IdleSQL /\ IdleCache

SpecKV == InitKVOnly /\ [][NextKV]_vars

\* Two threads inside store[key] = value.
InitSetOnly == InitSet /\ IdleSQL /\ IdleCache

SpecSet == InitSetOnly /\ [][NextSet]_vars

\* The manager and the data of one of its namespaces.
InitNS == InitCache /\ IdleSQL /\ IdleKV

SpecNS == InitNS /\ [][NextNS]_vars

\* The manager's cache alone.
InitCacheOnly == InitCache /\ IdleSQL /\ IdleKV

SpecCache == InitCacheOnly /\ [][NextCache]_vars

----------------------------------------------------------------------------
(***************************************************************************)
(* Claims about SQLiteDB                                                   *)
(***************************************************************************)

\* The callers between their lock acquire and their lock release.
InCall == {c \in Callers : pc[c] \in {"put", "get", "release"}}

\* Position of id in a history, 0 when absent.
IndexOf(seq, id) ==
    IF \E i \in 1..Len(seq) : seq[i] = id
    THEN CHOOSE i \in 1..Len(seq) : seq[i] = id
    ELSE 0

\* C1: at most one command is in flight: at most one caller is between its
\* lock acquire and its lock release and that caller holds the lock, the two
\* queues together never hold more than one item, every queued item belongs
\* to the lock holder's call, and both queues are empty whenever the lock is
\* free.
C1_OneCommandInFlight ==
    /\ Cardinality(InCall) <= 1
    /\ \A c \in InCall : db_lock = c
    /\ Len(queue_in) + Len(queue_out) <= 1
    /\ \A i \in 1..Len(queue_in) : queue_in[i].id[1] = db_lock
    /\ \A i \in 1..Len(queue_out) : queue_out[i].of[1] = db_lock
    /\ db_lock = "free" => queue_in = <<>> /\ queue_out = <<>>

\* A caller holds the lock with its command queued while another caller is
\* waiting for the lock.
C1_Witness ==
    \E c, d \in Callers :
        /\ c # d
        /\ db_lock = c
        /\ pc[c] = "get"
        /\ Len(queue_in) = 1
        /\ pc[d] = "acquire"

\* C2: the worker produces exactly one response per command it takes, in the
\* order taken (the histories agree but for the command being processed),
\* and the response a caller takes from the output queue is the response to
\* its own command.
C2_ResponseMatchesCommand ==
    /\ IF wpc \in {"process", "put"}
       THEN taken = Append(produced, command.id)
       ELSE taken = produced
    /\ \A c \in Callers :
           pc[c] = "release" =>
               /\ respond[c].of = cmd[c].id
               /\ Len(produced) > 0
               /\ produced[Len(produced)] = cmd[c].id
    /\ \A c \in Callers :
           pc[c] \in {"returned", "raised"} => respond[c].of = cmd[c].id

\* Both callers have had a call answered, the second one while the first
\* caller was already calling again.
C2_Witness ==
    \E c, d \in Callers :
        /\ c # d
        /\ Len(produced) >= 2
        /\ pc[c] = "release"
        /\ respond[c].of = <<c, 1>>
        /\ produced[1] = <<d, 1>>
        /\ pc[d] = "acquire"

\* C3: a quit() issued after a quit() has already returned True returns True
\* as well.
C3_SecondQuitReturns ==
    \A c \in Callers :
        (pc[c] = "get" /\ cmd[c].type = "DBCommandQuit" /\ quit_acks >= 1)
            ~> (pc[c] = "returned" /\ respond[c].type = "True")

\* In every state: an Exception response is only ever the response to a
\* failing statement and belongs to the caller that issued it, a caller that
\* has raised holds no lock, a failing statement's caller gets an Exception,
\* and the worker holding an Exception response is running, connection open.
C4_StateOK ==
    /\ \A c \in Callers :
           respond[c].type = "Exception" =>
               /\ cmd[c].type = "DBCommandSQL"
               /\ connection_execute(cmd[c].sql) = "Exception"
               /\ respond[c].of = cmd[c].id
    /\ \A c \in Callers :
           pc[c] = "raised" => respond[c].type = "Exception" /\ db_lock # c
    /\ \A c \in Callers :
           pc[c] \in {"release", "returned", "raised"}
           /\ cmd[c].type = "DBCommandSQL"
           /\ connection_execute(cmd[c].sql) = "Exception"
               => respond[c].type = "Exception"
    /\ (wpc = "put" /\ db_respond.type = "Exception") =>
           ~exited /\ connection = "open"

\* C4: an Exception response is only ever the response to a failing
\* statement and reaches the caller that issued that statement; the caller
\* raises it holding no lock; the worker that produced it has not exited and
\* its connection is open, and it goes back to its loop test.
C4_ErrorHandedBack ==
    /\ []C4_StateOK
    /\ [][(wpc = "put" /\ db_respond.type = "Exception" /\ wpc' # wpc)
              => (wpc' = "keep_running" /\ exited' = exited /\ connection' = connection)]_vars

\* A caller has raised a statement's error and, after that statement, the
\* worker served another caller's statement, whose rows that caller returned.
C4_Witness ==
    \E c, d \in Callers :
        /\ c # d
        /\ pc[c] = "raised"
        /\ pc[d] = "returned"
        /\ respond[d].type = "rows"
        /\ IndexOf(produced, cmd[c].id) > 0
        /\ IndexOf(produced, cmd[c].id) < IndexOf(produced, cmd[d].id)

\* C5: a command enqueued while the worker has not reached Stopped is
\* eventually answered to its caller.
C5_EnqueuedIsServed ==
    \A c \in Callers :
        (pc[c] = "get" /\ wpc # "stopped") ~> (pc[c] = "release")

\* The worker is past its command loop: at the commit after the loop or later.
LeftLoop == wpc \in {"final_commit", "close", "set_exited", "stopped"}

Processed(op) == \E i \in 1..Len(worker_ops) : worker_ops[i] = op

\* In every state: the worker has closed the connection at most once, the
\* close is the last thing it did and the commit after the loop the one
\* before, and it has closed only past its loop, which it left by a
\* processed Quit or by autoquit.
C14_StateOK ==
    LET n == Len(worker_ops)
        closes == {i \in 1..n : worker_ops[i] = "close"}
    IN  /\ Cardinality(closes) <= 1
        /\ \A i \in closes : i = n /\ i > 1 /\ worker_ops[i - 1] = "final_commit"
        /\ (connection = "closed") <=> (closes # {})
        /\ closes # {} => /\ wpc \in {"set_exited", "stopped"}
                          /\ autoquit_test = "callable" \/ Processed("quit")

\* C14: the worker closes the connection at most once, right after a final
\* commit, only after it has left its command loop (by a processed Quit or by
\* autoquit), and executes nothing on the connection after the close; the
\* exited flag, once true, stays true.
C14_ClosedOnceAfterFinalCommit ==
    /\ []C14_StateOK
    /\ [][exited => exited']_vars

\* The worker has stopped after it executed a statement and a commit and
\* then closed its connection.
C14_Witness ==
    /\ wpc = "stopped"
    /\ connection = "closed"
    /\ Processed("execute")
    /\ Processed("commit")

\* C15: with autoquit_test=None the worker is past its command loop only
\* when it has processed a Quit command.
C15_NoAutoquitExitsOnlyOnQuit ==
    (autoquit_test = "None" /\ LeftLoop) => Processed("quit")

\* An instance without autoquit has stopped: it executed a statement, then
\* processed a Quit.
C15_Witness ==
    /\ autoquit_test = "None"
    /\ wpc = "stopped"
    /\ Len(worker_ops) >= 2
    /\ worker_ops[1] = "execute"
    /\ Processed("quit")

\* A caller whose call cannot be answered: the worker is past its loop and
\* the caller is waiting for the lock, about to put its command, or waiting
\* for the response to a command that is still queued.
Stuck(c) ==
    /\ LeftLoop
    /\ \/ pc[c] \in {"acquire", "put"}
       \/ pc[c] = "get" /\ queue_in # <<>>

\* C20: once the worker is past its command loop, a call that has not put
\* its command yet, or whose command is still queued, stays unanswered at
\* every step, and the caller holding the lock in such a call keeps it.
C20_CallAfterExitHangs ==
    [][\A c \in Callers :
           Stuck(c) => /\ Stuck(c)'
                       /\ db_lock = c => db_lock' = c]_vars

\* The worker has stopped; one caller holds the lock and waits for the
\* response to its queued command, the other waits for the lock.
C20_Witness ==
    \E c, d \in Callers :
        /\ c # d
        /\ wpc = "stopped"
        /\ pc[c] = "get"
        /\ db_lock = c
        /\ queue_in # <<>>
        /\ pc[d] = "acquire"

----------------------------------------------------------------------------
(***************************************************************************)
(* Claims about IndexedDB                                                  *)
(***************************************************************************)

StoredKeys == DOMAIN db.rows

\* C6: through one handle with no other writer, a store[k] that follows a
\* successful store[k] = v returns v.
C6_SetThenGetReturnsValue ==
    (/\ last.op = "getitem"
     /\ expected[last.key].state = "set"
     /\ writers \subseteq {last.h})
        => (last.err = "" /\ last.val = expected[last.key].v)

\* key_exists(k) raises nothing and returns whether k was set (in this run
\* or an earlier one) and not deleted since.
C7_KeyExistsAnswer ==
    last.op = "key_exists" =>
        /\ last.err = ""
        /\ last.val = PyBool(expected[last.key].state \in {"stored", "set"})

\* C7: key_exists(k) raises nothing and returns whether k was set (in this
\* run or an earlier one) and not deleted since; a delete of a key that is
\* not stored raises nothing and leaves the stored rows as they were.
C7_KeyExistsAndDelete ==
    /\ []C7_KeyExistsAnswer
    /\ [][(last'.op = "delitem" /\ last'.key \notin StoredKeys)
              => (last'.err = "" /\ db'.rows = db.rows /\ db'.jsonized = db.jsonized)]_vars

\* key_exists has just answered False for a key that was set and then
\* deleted, while another key is stored.
C7_Witness ==
    /\ last.op = "key_exists"
    /\ last.val = PyBool(FALSE)
    /\ expected[last.key].state = "deleted"
    /\ \E k \in Keys : k # last.key /\ expected[k].state = "set" /\ k \in StoredKeys

\* store[key] for a key that is not stored raises KeyError; get(key, default)
\* for such a key raises nothing and returns the default.
C8_MissingKeyOutcome ==
    /\ (last.op = "getitem" /\ last.key \notin StoredKeys) => last.err = "KeyError"
    /\ (last.op = "get" /\ last.key \notin StoredKeys) =>
           (last.err = "" /\ last.val = last.arg)

\* C8: store[key] for a key that is not stored raises KeyError,
\* get(key, default) for such a key raises nothing and returns the default,
\* and neither changes the stored rows.
C8_MissingKeyRead ==
    /\ []C8_MissingKeyOutcome
    /\ [][(last'.op \in {"getitem", "get"} /\ last'.key \notin StoredKeys)
              => (db'.rows = db.rows /\ db'.jsonized = db.jsonized)]_vars

\* get has just returned its default for a key that is not stored, in a
\* table that stores another key.
C8_Witness ==
    /\ last.op = "get"
    /\ last.key \notin StoredKeys
    /\ last.val = last.arg
    /\ StoredKeys # {}

\* C9: when a set or a delete returns without error, the row it wrote is
\* not in an open transaction.
C9_CommittedOnReturn ==
    (last.op \in {"setitem", "delitem"} /\ last.err = "")
        => last.key \notin db.uncommitted

\* The value a set of v reads back as: the text stored for v, decoded by the
\* tag stored with it.
TagDecoded(v) == decode_row(HandleState(TRUE, "True"), StoredRow(v)).val

\* C19: through two handles of one namespace, used in any order, every set
\* succeeds, and a store[k] that follows a set of k to v, through whichever
\* handle, returns v as decoded by the tag stored for k.
C19_TwoHandlesCoherent ==
    /\ last.op = "setitem" => last.err = ""
    /\ (last.op = "getitem" /\ expected[last.key].state = "set")
           => (last.err = "" /\ last.val = TagDecoded(expected[last.key].v))

\* Both threads have left their set, by return or by raise.
SettersDone == \A t \in Threads : setters[t].pc \in {"returned", "raised"}

\* C16: when two threads have set the same key at the same time, both calls
\* have returned without error, the key is stored, and its row is the row
\* one of the two calls writes.
C16_ConcurrentSetAtomic ==
    SettersDone =>
        /\ \A t \in Threads : setters[t].pc = "returned" /\ setters[t].err = ""
        /\ SetKey \in DOMAIN db.rows
        /\ \E t \in Threads : db.rows[SetKey] = StoredRow(setters[t].value)

\* C17: a set issues the ALTER TABLE only for a value that is not a string
\* and only while the table has no jsonized column, and the table has the
\* column when the UPDATE or INSERT of a value that is not a string runs.
C17_AlterExactlyWhenNeeded ==
    [][\A t \in Threads :
           /\ (setters[t].pc = "alter" /\ setters'[t].pc # "alter")
                  => (setters[t].value.kind # "str" /\ ~db.jsonized)
           /\ (/\ setters[t].pc \in {"update", "insert"}
               /\ setters'[t].pc # setters[t].pc
               /\ setters[t].value.kind # "str")
                  => db.jsonized]_vars

----------------------------------------------------------------------------
(***************************************************************************)
(* Claims about IndexedDBManager                                           *)
(***************************************************************************)

\* In every state of a run without del manager[name]: a manager[name][k]
\* for a key that was set returns the value set.
C12_StateOK ==
    (~dropped /\ last.op = "getitem" /\ expected[last.key].state = "set")
        => (last.err = "" /\ last.val = expected[last.key].v)

\* C12: a step that evicts a handle leaves the namespace's table, columns
\* and rows as they were, and the handle a later manager[name] makes returns
\* the values that were set.
C12_EvictionKeepsData ==
    /\ []C12_StateOK
    /\ [][evictions' # evictions => db' = db]_vars

\* The list stored through the namespace's first handle, before any
\* eviction, has just been read through the handle that the last
\* manager[name] made after that first handle was evicted.
C12_Witness ==
    /\ ~dropped
    /\ evictions = 2
    /\ set_at = {0}
    /\ returned.item = Tracked
    /\ returned.created
    /\ returned.victim \notin {NoName, Tracked}
    /\ last.op = "getitem"
    /\ last.err = ""
    /\ last.val = PyList(<<1, 2>>)

\* After a del manager[name] the namespace is a new, empty one: keys() raises
\* nothing and returns the keys set since, a set raises nothing, and
\* store[k] returns the value set since or raises KeyError.
C13_FreshStore ==
    dropped =>
        /\ last.op = "keys" =>
              /\ last.err = ""
              /\ last.val = PyKeySet({k \in Keys : expected[k].state = "set"})
        /\ last.op = "setitem" => last.err = ""
        /\ last.op = "getitem" =>
              IF expected[last.key].state = "set"
              THEN last.err = "" /\ last.val = expected[last.key].v
              ELSE last.err = "KeyError"

\* C13: a name in manager that follows a del manager[name] returns False,
\* and the store manager[name] gives after it is a new, empty one: keys()
\* returns the empty set without error, set and get work as on a new
\* namespace.
C13_DropThenFresh ==
    /\ []C13_FreshStore
    /\ [][(last.op = "manager_delitem" /\ last.err = "" /\ last'.op = "manager_contains")
              => last'.val = PyBool(FALSE)]_vars

\* C10: the handle cache never holds more than 128 handles.
C10_CacheAtMostLimit == Cardinality(Cached) <= CacheLimit

\* C11: with 128 distinct namespaces accessed and cached, the access of a
\* namespace that is not cached removes exactly one of the cached handles.
C11_Access129EvictsOne ==
    [][(/\ evictions = 0
        /\ Cardinality(Cached) = CacheLimit
        /\ returned'.item \notin Cached)
           => Cardinality(Cached \ Cached') = 1]_vars

\* C18: an access to a name that is cached removes no entry from the cache
\* and returns the handle the cache held for it, not a new one.
C18_CachedAccessIsMemoized ==
    [][(returned'.item \in Cached)
           => (Cached \subseteq Cached' /\ ~returned'.created)]_vars

====
